---- MODULE Spec2Model ----
(***************************************************************************)
(* A state-machine model of pygama's build_raw (src/pygama/raw/build_raw.py):*)
(* the conversion of a DAQ input stream into LH5 output files.  One action  *)
(* per block of build_raw; the collaborators that are imported from          *)
(* raw_buffer.py, fc_streamer.py and lgdo (RawBufferLibrary, FCStreamer,     *)
(* write_to_lh5_and_clear) are modelled from their contract.                 *)
(***************************************************************************)
EXTENDS Integers, Sequences, FiniteSets, TLC

VARIABLES
    args,            \* the arguments build_raw was called with (never change)
    in_exists,       \* os.path.exists(in_stream)
    faults,          \* what the stream does wrong: [at, small]
    in_data,         \* the records of the input file: the stream identity of each
    fs,              \* the output directory: file name -> content (a sequence of entries)
    fs0,             \* the output directory when the running call started
    run,             \* 1 for the first call of build_raw, 2 for the repeated call
    pc,              \* position of the running call in build_raw
    result,          \* how the call ended ("running" while it has not)
    ret,             \* what the call gave back: [value, named]
    progress_bar,    \* the tqdm bar of the call: [made, unit, n]
    first,           \* how the first call went, once it is over
    eo,              \* a call into pargen/energy_optimisation.py
    cb,              \* a call into math/functions/crystal_ball.py
    in_stream_type,  \* local in_stream_type
    out_spec,        \* local out_spec: [kind, files]
    buffer_size,     \* local buffer_size
    n_max,           \* local n_max: [inf, v]
    streamer,        \* the streamer: [open, pos]
    rb_lib,          \* streamer.rb_lib: identity -> [loc, data, size, out_stream]
    rb_order,        \* the order in which the library lists its buffers
    out_files,       \* local out_files of the overwrite check
    i_out,           \* index of the overwrite-check loop in out_files
    chunk_list,      \* local chunk_list: the identities of the returned buffers
    log              \* history of the running call: what it did to its collaborators

vars == <<args, in_exists, in_data, faults, progress_bar, first, eo, cb, fs, fs0, run, pc, result, ret, in_stream_type,
          out_spec, buffer_size, n_max, streamer, rb_lib, rb_order, out_files,
          i_out, chunk_list, log>>

----------------------------------------------------------------------------
(* Bounds of the model *)

MaxLen == 4          \* longest input, in records
MaxNMax == 3         \* largest finite n_max
NegDepth == 1        \* most negative n_max is 0 - NegDepth
MaxBufferSize == 3   \* largest buffer_size argument
MaxFailAt == 3       \* latest call of read_chunk that fails
MaxBeta == 2         \* largest beta of a crystal ball call (the least is -1)
MaxM == 3            \* largest m of a crystal ball call (the least is 0)
MaxX == 2            \* longest x of a crystal ball call

DefaultVerbosity == 2                   \* verbosity=2 of the signature
Verbosities == 0..DefaultVerbosity      \* silent, info, info and progress bar

----------------------------------------------------------------------------
(* Values *)

IDs == {"A", "B"}                       \* stream identities of the input

Inf == [inf |-> TRUE, v |-> 0]          \* np.inf
Num(k) == [inf |-> FALSE, v |-> k]      \* a finite n_max

\* rb.loc > n_max, buffer_size > n_max
Gt(x, nm) == ~nm.inf /\ x > nm.v
\* n_max -= x
Sub(nm, x) == IF nm.inf THEN nm ELSE Num(nm.v - x)
\* n_max <= 0
LeqZero(nm) == ~nm.inf /\ nm.v <= 0
\* min(x, n_max) for a count x
MinN(x, nm) == IF Gt(x, nm) THEN nm.v ELSE x

\* s.rfind(c): the last index of c in s, or 0 (python's -1) when s has none
rfind(s, c) ==
    LET is == {i \in 1..Len(s) : s[i] = c}
    IN IF is = {} THEN 0 ELSE CHOOSE i \in is : \A k \in is : k <= i

IsPrefix(s, t) == Len(s) <= Len(t) /\ s = SubSeq(t, 1, Len(s))

----------------------------------------------------------------------------
(* glob.glob(out_file): the existing files a destination name matches.     *)
(* A name is a sequence of characters; "*", "?" and "[" are magic.         *)

Magic == {"*", "?", "["}

has_magic(p) == \E i \in 1..Len(p) : p[i] \in Magic

\* index of the "]" that closes the "[" at p[1]; 0 when there is none
\* (a "]" right after the "[" is a member of the class, not its end)
ClosingBracket(p) ==
    LET js == {j \in 3..Len(p) : p[j] = "]"}
    IN IF js = {} THEN 0 ELSE CHOOSE j \in js : \A k \in js : j <= k

RECURSIVE fnmatch(_, _)
fnmatch(s, p) ==
    IF p = <<>> THEN s = <<>>
    ELSE IF p[1] = "*"
        THEN fnmatch(s, Tail(p)) \/ (s # <<>> /\ fnmatch(Tail(s), p))
    ELSE IF p[1] = "?"
        THEN s # <<>> /\ fnmatch(Tail(s), Tail(p))
    ELSE IF p[1] = "[" /\ ClosingBracket(p) # 0
        THEN LET j == ClosingBracket(p)
             IN /\ s # <<>>
                /\ \E k \in 2..(j - 1) : p[k] = s[1]
                /\ fnmatch(Tail(s), SubSeq(p, j + 1, Len(p)))
    ELSE s # <<>> /\ s[1] = p[1] /\ fnmatch(Tail(s), Tail(p))

ishidden(p) == p # <<>> /\ p[1] = "."

\* the set of existing files that pattern p matches
glob(p, files) ==
    IF ~has_magic(p)
    THEN IF p \in DOMAIN files THEN {p} ELSE {}
    ELSE {f \in DOMAIN files : fnmatch(f, p) /\ (ishidden(f) => ishidden(p))}

\* os.remove(f)
remove(files, f) == [g \in (DOMAIN files) \ {f} |-> files[g]]

----------------------------------------------------------------------------
(* The values the arguments and the environment are drawn from *)

NameA == <<"a">>
NameB == <<"b">>
NameQ == <<"?">>                 \* matches every one-character file name
NameBr == <<"[", "a", "]">>      \* matches the file "a" and nothing else
UserNames == {NameA, NameB, NameQ, NameBr}

PathFcio == <<"f", ".", "fcio">>
PathNoExt == <<"f">>
PathDat == <<"f", ".", "dat">>
PathDirDot == <<"d", ".", "fcio", "/", "f">>
InPaths == {PathFcio, PathNoExt, PathDat, PathDirDot}

StreamTypes == {"None", "FlashCam", "ORCA", "LlamaDaq", "Compass", "MGDO", "FlashCams"}

\* out_spec: None, a file name, a RawBufferLibrary or its json dict; for the
\* last two, files[1] is the out_stream of identity "A" and files[2] of "B",
\* and size is the size of their buffers
OutNone == [kind |-> "none", files |-> <<>>, size |-> 0]
OutStr(f) == [kind |-> "str", files |-> <<f>>, size |-> 0]
OutLib(k, f, g, size) == [kind |-> k, files |-> <<f, g>>, size |-> size]
OutSpecs ==
    {OutNone}
    \cup {OutStr(f) : f \in UserNames}
    \cup {OutLib(k, f, g, 2) : k \in {"lib", "dict"}, f \in UserNames, g \in UserNames}

NMaxVals == {Inf} \cup {Num(k) : k \in (0 - NegDepth)..MaxNMax}

RECURSIVE SeqsUpTo(_)
SeqsUpTo(n) ==
    IF n = 0 THEN {<<>>}
    ELSE LET shorter == SeqsUpTo(n - 1)
         IN shorter \cup {Append(s, id) : s \in {t \in shorter : Len(t) = n - 1}, id \in IDs}

\* entries of an output file
Hdr == [id |-> "hdr", k |-> 0]          \* the header data of one run
Old == [id |-> "old", k |-> 0]          \* what a file held before the first run
Rec(i) == [id |-> in_data[i], k |-> i]  \* the i-th record of the input

\* the directory of outputs with exactly the files of S, each with old content
OldFiles(S) == [f \in S |-> <<Old>>]

\* the default output name: in_stream with its part after the last "." replaced
DefaultOutSpec(path) ==
    LET i_ext == rfind(path, ".")
        stem == IF i_ext # 0 THEN SubSeq(path, 1, i_ext - 1) ELSE path
    IN stem \o <<".", "lh5">>

----------------------------------------------------------------------------
(* An entry of the history *)

Ev(op, file, id, n, rows) ==
    [op |-> op, file |-> file, id |-> id, n |-> n, rows |-> rows, b |-> n_max]

----------------------------------------------------------------------------
(* RawBufferLibrary, FCStreamer and write_to_lh5_and_clear *)

NoLib == [id \in {} |-> 0]              \* rb_lib = None

RawBuffer(out_stream, size) ==
    [loc |-> 0, data |-> <<>>, size |-> size, out_stream |-> out_stream]

\* RawBufferLibrary built from a routing of the two identities
RawBufferLibrary(spec) ==
    [id \in IDs |-> RawBuffer(IF id = "A" THEN spec.files[1] ELSE spec.files[2], spec.size)]

\* rb_lib.get_list_of('out_stream'): the destinations, each one once
get_list_of(lib, order) ==
    IF lib[order[1]].out_stream = lib[order[2]].out_stream
    THEN <<lib[order[1]].out_stream>>
    ELSE <<lib[order[1]].out_stream, lib[order[2]].out_stream>>

\* streamer.read_chunk with chunk_mode='full_only': decode records into their
\* buffers until one buffer is full or the input ends
RECURSIVE Decode(_, _)
Decode(pos, lib) ==
    IF pos > Len(in_data)
    THEN [pos |-> pos, lib |-> lib, chunk |-> {id \in IDs : lib[id].loc > 0}]
    ELSE LET id == in_data[pos]
             lib2 == [lib EXCEPT ![id].data = Append(@, Rec(pos)), ![id].loc = @ + 1]
         IN IF lib2[id].loc >= lib2[id].size
            THEN [pos |-> pos + 1, lib |-> lib2, chunk |-> {id}]
            ELSE Decode(pos + 1, lib2)

\* the buffers of S as a list, in the order of the library
ChunkList(S, order) == SelectSeq(order, LAMBDA id : id \in S)

\* what a destination holds after n_rows rows of a buffer are appended to it
AppendTo(files, f, rows) ==
    IF f \in DOMAIN files
    THEN [files EXCEPT ![f] = @ \o rows]
    ELSE [g \in (DOMAIN files) \cup {f} |-> IF g = f THEN rows ELSE files[g]]

\* write_to_lh5_and_clear(chunk_list, lh5_store): append the first loc rows
\* of each buffer to its out_stream, then reset the buffer
RECURSIVE write_to_lh5_and_clear(_, _, _)
write_to_lh5_and_clear(ch, files, lib) ==
    IF ch = <<>> THEN [fs |-> files, lib |-> lib]
    ELSE LET rb == lib[Head(ch)]
         IN write_to_lh5_and_clear(
                Tail(ch),
                AppendTo(files, rb.out_stream, SubSeq(rb.data, 1, rb.loc)),
                [lib EXCEPT ![Head(ch)].loc = 0, ![Head(ch)].data = <<>>])

\* write_to_lh5_and_clear(header_data, lh5_store): the header goes to every destination
RECURSIVE write_header(_, _)
write_header(dests, files) ==
    IF dests = <<>> THEN files
    ELSE write_header(Tail(dests), AppendTo(files, Head(dests), <<Hdr>>))

----------------------------------------------------------------------------
(* The state a call of build_raw starts in *)

\* no progress bar is made
NoBar == [made |-> FALSE, unit |-> "", n |-> 0]

\* the first call is not over
NoFirst == [log |-> <<>>, result |-> "running", ret |-> [value |-> "running", named |-> {}],
            fs |-> <<>>]

\* no function of the other modules is called
NoCall == [pc |-> "None"]

\* the call has not returned
NoRet == [value |-> "running", named |-> {}]

StartCall ==
    /\ pc = "CheckInput"
    /\ result = "running"
    /\ ret = NoRet
    /\ progress_bar = NoBar
    /\ in_stream_type = args.in_stream_type
    /\ out_spec = args.out_spec
    /\ buffer_size = args.buffer_size
    /\ n_max = args.n_max
    /\ streamer = [open |-> FALSE, pos |-> 1]
    /\ rb_lib = NoLib
    /\ out_files = <<>>
    /\ i_out = 1
    /\ chunk_list = <<>>
    /\ log = <<>>

\* a stream that reads every record, and takes a buffer without room as full
NoFaults == [at |-> 0, small |-> FALSE]

Args(path, type, spec, size, nmax, ow) ==
    [in_stream |-> path, in_stream_type |-> type, out_spec |-> spec,
     buffer_size |-> size, n_max |-> nmax, overwrite |-> ow,
     verbosity |-> DefaultVerbosity]

\* every input and row limit, written to one or two fresh or old destinations
InitData ==
    /\ in_exists = TRUE
    /\ in_data \in SeqsUpTo(MaxLen)
    /\ \E size \in 1..MaxBufferSize, nmax \in NMaxVals :
       \E spec \in {OutStr(NameA), OutLib("lib", NameA, NameB, size)} :
            args = Args(PathFcio, "FlashCam", spec, size, nmax, TRUE)
    /\ fs = OldFiles({NameB})
    /\ rb_order \in {<<"A", "B">>, <<"B", "A">>}
    /\ faults \in [at : 0..MaxFailAt, small : {FALSE}]
                 \cup [at : {0}, small : {b \in BOOLEAN : b => LeqZero(args.n_max)}]

\* every routing over every directory, for a short input
InitFiles ==
    /\ in_exists = TRUE
    /\ in_data \in {<<>>, <<"A", "B">>}
    /\ \E spec \in OutSpecs, ow \in BOOLEAN, nmax \in {Inf, Num(1)} :
            args = Args(PathFcio, "None", spec, 2, nmax, ow)
    /\ fs \in {OldFiles(S) : S \in SUBSET (UserNames \cup {DefaultOutSpec(PathFcio)})}
    /\ rb_order = <<"A", "B">>
    /\ faults = NoFaults

\* every input name, stream type and buffer size
InitArgs ==
    /\ in_exists \in BOOLEAN
    /\ in_data = <<"A", "B", "A">>
    /\ \E path \in InPaths, type \in StreamTypes, size \in 0..MaxBufferSize,
          spec \in {OutNone, OutStr(NameA)},
          ow \in BOOLEAN :
            args = Args(path, type, spec, size, Inf, ow)
    /\ fs \in {OldFiles({}), OldFiles({NameA, DefaultOutSpec(args.in_stream)})}
    /\ rb_order = <<"A", "B">>
    /\ faults = NoFaults

Init ==
    /\ InitData \/ InitFiles \/ InitArgs
    /\ fs0 = fs
    /\ run = 1
    /\ first = NoFirst
    /\ eo = NoCall /\ cb = NoCall
    /\ StartCall

----------------------------------------------------------------------------
(* build_raw, block by block *)

\* print an error that names the files of names, and return
ReturnNaming(r, names) ==
    /\ result' = r
    /\ ret' = [value |-> "None", named |-> names]
    /\ pc' = "Done"

\* a bare return, and the end of the function: the call gives None
Return(r) == ReturnNaming(r, {})

\* an exception of a collaborator leaves build_raw
Raise(r) ==
    /\ result' = r
    /\ ret' = [value |-> "raised", named |-> {}]
    /\ pc' = "Done"

\* lines 55-62: the input must exist
CheckInput ==
    /\ pc = "CheckInput"
    /\ IF ~in_exists
       THEN Return("not_found")
       ELSE pc' = "GuessType" /\ UNCHANGED <<result, ret>>
    /\ UNCHANGED <<args, in_exists, in_data, faults, progress_bar, first, eo, cb, rb_order, fs, fs0, run, in_stream_type, out_spec,
                   buffer_size, n_max, streamer, rb_lib, out_files, i_out, chunk_list, log>>

\* a guess that takes a name without "." for a FlashCam file
GuessedTypeDefaultsToFlashCam(path) ==
    LET i_ext == rfind(path, ".")
        ext == SubSeq(path, i_ext + 1, Len(path))
    IN IF i_ext = 0 THEN "FlashCam"
       ELSE IF ext = <<"fcio">> THEN "FlashCam"
       ELSE ""

\* the stream type guessed from the name of the input: "" when there is none
GuessedType(path) ==
    LET i_ext == rfind(path, ".")
        ext == SubSeq(path, i_ext + 1, Len(path))
    IN IF i_ext = 0 THEN ""
       ELSE IF ext = <<"fcio">> THEN "FlashCam"
       ELSE ""

\* lines 64-74: guess the stream type when it is not given
GuessType ==
    /\ pc = "GuessType"
    /\ IF in_stream_type = "None"
       THEN IF GuessedType(args.in_stream) = ""
            THEN Return("unknown_file_type") /\ UNCHANGED in_stream_type
            ELSE /\ in_stream_type' = GuessedType(args.in_stream)
                 /\ pc' = "OutSpec"
                 /\ UNCHANGED <<result, ret>>
       ELSE pc' = "OutSpec" /\ UNCHANGED <<result, ret, in_stream_type>>
    /\ UNCHANGED <<args, in_exists, in_data, faults, progress_bar, first, eo, cb, rb_order, fs, fs0, run, out_spec,
                   buffer_size, n_max, streamer, rb_lib, out_files, i_out, chunk_list, log>>

\* lines 76-85: the routing, or the name of the one output file
ProcessOutSpec ==
    /\ pc = "OutSpec"
    /\ IF out_spec.kind \in {"lib", "dict"}
       THEN rb_lib' = RawBufferLibrary(out_spec) /\ UNCHANGED out_spec
       ELSE IF out_spec.kind = "none"
       THEN /\ out_spec' = OutStr(DefaultOutSpec(args.in_stream))
            /\ UNCHANGED rb_lib
       ELSE UNCHANGED <<out_spec, rb_lib>>
    /\ pc' = "BufferSize"
    /\ UNCHANGED <<args, in_exists, in_data, faults, progress_bar, first, eo, cb, rb_order, fs, fs0, run, result, ret, in_stream_type,
                   buffer_size, n_max, streamer, out_files, i_out, chunk_list, log>>

\* line 91: the buffer size is lowered to n_max
LimitBufferSize(size, nmax) == IF Gt(size, nmax) THEN nmax.v ELSE size

\* lines 87-91
CheckBufferSize ==
    /\ pc = "BufferSize"
    /\ IF buffer_size < 1
       THEN Return("bad_buffer_size") /\ UNCHANGED buffer_size
       ELSE /\ buffer_size' = LimitBufferSize(buffer_size, n_max)
            /\ pc' = "StartInfo"
            /\ UNCHANGED <<result, ret>>
    /\ UNCHANGED <<args, in_exists, in_data, faults, progress_bar, first, eo, cb, rb_order, fs, fs0, run, in_stream_type, out_spec,
                   n_max, streamer, rb_lib, out_files, i_out, chunk_list, log>>

\* lines 93-108: the start of processing info; a progress bar over the rows
\* when n_max is finite, over the bytes of the input otherwise
StartInfo ==
    /\ pc = "StartInfo"
    /\ progress_bar' =
            IF args.verbosity > 1
            THEN [made |-> TRUE, unit |-> IF n_max.inf THEN "B" ELSE "rows", n |-> 0]
            ELSE progress_bar
    /\ pc' = "SelectStreamer"
    /\ UNCHANGED <<args, in_exists, in_data, faults, first, eo, cb, rb_order, fs, fs0, run, result, ret,
                   in_stream_type, out_spec, buffer_size, n_max, streamer, rb_lib,
                   out_files, i_out, chunk_list, log>>

\* lines 113-131: only the FlashCam streamer exists
SelectStreamer ==
    /\ pc = "SelectStreamer"
    /\ IF in_stream_type = "FlashCam"
       THEN pc' = "OpenStream" /\ UNCHANGED <<result, ret>>
       ELSE IF in_stream_type \in {"ORCA", "LlamaDaq", "Compass", "MGDO"}
       THEN Return("not_implemented")
       ELSE Return("unknown_stream_type")
    /\ UNCHANGED <<args, in_exists, in_data, faults, progress_bar, first, eo, cb, rb_order, fs, fs0, run, in_stream_type, out_spec,
                   buffer_size, n_max, streamer, rb_lib, out_files, i_out, chunk_list, log>>

\* streamer.open_stream: the library it is given, or one that sends every
\* identity to out_stream through buffers of the default size
open_stream(lib, size, out_stream) ==
    IF lib = NoLib THEN [id \in IDs |-> RawBuffer(out_stream, size)] ELSE lib

\* streamer.n_bytes_read: the header and every record read count as one
n_bytes_read(st) == IF st.open THEN st.pos ELSE 0

\* progress_bar.update(n) under the condition c of the code
update(c, n) == IF c THEN [progress_bar EXCEPT !.n = @ + n] ELSE progress_bar

\* lines 133-144: open the stream, which completes rb_lib, and list the destinations
OpenStream ==
    /\ pc = "OpenStream"
    /\ ~(rb_lib = NoLib /\ buffer_size < 0)
    /\ streamer' = [open |-> TRUE, pos |-> 1]
    /\ progress_bar' = update(args.verbosity > 1 /\ n_max.inf, n_bytes_read(streamer'))
    /\ rb_lib' = open_stream(rb_lib, buffer_size,
                             IF out_spec.kind = "str" THEN out_spec.files[1] ELSE <<>>)
    /\ out_files' = get_list_of(rb_lib', rb_order)
    /\ i_out' = 1
    /\ log' = Append(log, Ev("open_stream", <<>>, "", buffer_size, <<>>))
    /\ pc' = "OutputPrepare"
    /\ UNCHANGED <<args, in_exists, in_data, faults, first, eo, cb, rb_order, fs, fs0, run, result, ret, in_stream_type,
                   out_spec, buffer_size, n_max, chunk_list>>

\* open_stream raises: no buffer has a negative size
OpenStreamRaises ==
    /\ pc = "OpenStream"
    /\ rb_lib = NoLib
    /\ buffer_size < 0
    /\ log' = Append(log, Ev("open_stream", <<>>, "", buffer_size, <<>>))
    /\ Raise("stream_error")
    /\ UNCHANGED <<args, in_exists, in_data, faults, progress_bar, first, eo, cb, rb_order, fs, fs0, run, in_stream_type, out_spec,
                   buffer_size, n_max, streamer, rb_lib, out_files, i_out,
                   chunk_list>>

\* lines 145-154: one pass of the loop over out_files
PrepareOutFile ==
    /\ pc = "OutputPrepare"
    /\ i_out <= Len(out_files)
    /\ LET out_file == out_files[i_out]
           out_file_glob == glob(out_file, fs)
       IN IF out_file_glob = {}
          THEN /\ i_out' = i_out + 1
               /\ log' = Append(log, Ev("glob", out_file, "", 0, <<>>))
               /\ UNCHANGED <<fs, pc, result, ret>>
          ELSE IF Cardinality(out_file_glob) > 1
          THEN /\ ReturnNaming("multiple_matches", {out_file} \cup out_file_glob)
               /\ log' = Append(log, Ev("glob", out_file, "", Cardinality(out_file_glob), <<>>))
               /\ UNCHANGED <<fs, i_out>>
          ELSE IF ~args.overwrite
          THEN /\ ReturnNaming("file_exists", out_file_glob)
               /\ log' = Append(log, Ev("glob", out_file, "", 1, <<>>))
               /\ UNCHANGED <<fs, i_out>>
          ELSE LET f == CHOOSE g \in out_file_glob : TRUE
               IN /\ fs' = remove(fs, f)
                  /\ i_out' = i_out + 1
                  /\ log' = log \o <<Ev("glob", out_file, "", 1, <<>>), Ev("remove", f, "", 0, <<>>)>>
                  /\ UNCHANGED <<pc, result, ret>>
    /\ UNCHANGED <<args, in_exists, in_data, faults, progress_bar, first, eo, cb, rb_order, fs0, run, in_stream_type, out_spec,
                   buffer_size, n_max, streamer, rb_lib, out_files, chunk_list>>

\* a header that is written before the loop over out_files has ended
HeaderWriteEarly ==
    /\ pc = "OutputPrepare"
    /\ fs' = write_header(out_files, fs)
    /\ log' = Append(log, Ev("header", <<>>, "", 0, <<>>))
    /\ pc' = "ReadChunk"
    /\ UNCHANGED <<args, in_exists, in_data, faults, progress_bar, first, eo, cb, rb_order, fs0, run, result, ret, in_stream_type, out_spec,
                   buffer_size, n_max, streamer, rb_lib, out_files, i_out, chunk_list>>

\* lines 156-161: after the loop, the header data is written
HeaderWrite ==
    /\ pc = "OutputPrepare"
    /\ i_out > Len(out_files)
    /\ fs' = write_header(out_files, fs)
    /\ log' = Append(log, Ev("header", <<>>, "", 0, <<>>))
    /\ pc' = "ReadChunk"
    /\ UNCHANGED <<args, in_exists, in_data, faults, progress_bar, first, eo, cb, rb_order, fs0, run, result, ret, in_stream_type, out_spec,
                   buffer_size, n_max, streamer, rb_lib, out_files, i_out, chunk_list>>

\* what streamer.read_chunk may return: the new position, the buffers and the
\* list of returned buffers.  A buffer of capacity below 1 takes no record: it
\* is full as it is, and is returned with nothing decoded.
read_chunk ==
    IF streamer.pos > Len(in_data) \/ rb_lib[in_data[streamer.pos]].size >= 1
    THEN LET r == Decode(streamer.pos, rb_lib)
         IN [pos |-> r.pos, lib |-> r.lib, chunk |-> ChunkList(r.chunk, rb_order)]
    ELSE [pos |-> streamer.pos, lib |-> rb_lib, chunk |-> <<in_data[streamer.pos]>>]

\* the rows of the buffers of a chunk, buffer after buffer
RECURSIVE ChunkRows(_, _)
ChunkRows(ch, lib) ==
    IF ch = <<>> THEN <<>>
    ELSE SubSeq(lib[Head(ch)].data, 1, lib[Head(ch)].loc) \o ChunkRows(Tail(ch), lib)

\* the calls of streamer.read_chunk so far
n_read_chunk == Cardinality({i \in DOMAIN log : log[i].op = "read_chunk"})

\* the next call of read_chunk raises: the input is damaged at this place, or
\* a record cannot be stored in a buffer of capacity below 1
ReadChunkFails ==
    \/ faults.at = n_read_chunk + 1
    \/ /\ faults.small
       /\ streamer.pos <= Len(in_data)
       /\ rb_lib[in_data[streamer.pos]].size < 1

\* lines 162-167: read a chunk; an empty chunk list ends the loop
ReadChunk ==
    /\ pc = "ReadChunk"
    /\ ~ReadChunkFails
    /\ LET r == read_chunk IN
        /\ streamer' = [streamer EXCEPT !.pos = r.pos]
        /\ rb_lib' = r.lib
        /\ chunk_list' = r.chunk
        /\ progress_bar' = update(args.verbosity > 1 /\ n_max.inf,
                                  n_bytes_read(streamer') - n_bytes_read(streamer))
        /\ log' = Append(log, Ev("read_chunk", <<>>, "", Len(r.chunk),
                                 ChunkRows(r.chunk, r.lib)))
        /\ pc' = IF Len(r.chunk) = 0 THEN "Summary" ELSE "ClipChunk"
    /\ UNCHANGED <<args, in_exists, in_data, faults, first, eo, cb, rb_order, fs, fs0, run, result, ret, in_stream_type, out_spec,
                   buffer_size, n_max, out_files, i_out>>

\* line 162: read_chunk raises, and the exception leaves build_raw
ReadChunkRaises ==
    /\ pc = "ReadChunk"
    /\ ReadChunkFails
    /\ log' = Append(log, Ev("read_chunk", <<>>, "", 0, <<>>))
    /\ Raise("stream_error")
    /\ UNCHANGED <<args, in_exists, in_data, faults, progress_bar, first, eo, cb, rb_order, fs, fs0, run, in_stream_type, out_spec,
                   buffer_size, n_max, streamer, rb_lib, out_files, i_out, chunk_list>>

\* a clipping that is done only while the progress bar counts rows
ClipLocWhenVerbose(loc, nmax) ==
    IF args.verbosity > 1 /\ Gt(loc, nmax) THEN nmax.v ELSE loc

\* line 170: rb.loc after the clipping to n_max
ClipLoc(loc, nmax) == IF Gt(loc, nmax) THEN nmax.v ELSE loc

\* a clipping that takes the whole fill of a buffer off n_max
RECURSIVE ClipAllTakesFill(_, _, _)
ClipAllTakesFill(ch, lib, nmax) ==
    IF ch = <<>> THEN [lib |-> lib, n_max |-> nmax]
    ELSE LET loc == ClipLoc(lib[Head(ch)].loc, nmax)
         IN ClipAllTakesFill(Tail(ch), [lib EXCEPT ![Head(ch)].loc = loc],
                             Sub(nmax, lib[Head(ch)].loc))

\* lines 169-172: clip the buffers of the chunk one after the other
RECURSIVE ClipAll(_, _, _)
ClipAll(ch, lib, nmax) ==
    IF ch = <<>> THEN [lib |-> lib, n_max |-> nmax]
    ELSE LET loc == ClipLoc(lib[Head(ch)].loc, nmax)
         IN ClipAll(Tail(ch), [lib EXCEPT ![Head(ch)].loc = loc], Sub(nmax, loc))

\* lines 168, 172: n_read, the sum of rb.loc over the chunk
RECURSIVE n_read(_, _)
n_read(ch, lib) == IF ch = <<>> THEN 0 ELSE lib[Head(ch)].loc + n_read(Tail(ch), lib)

\* lines 168-173
ClipChunk ==
    /\ pc = "ClipChunk"
    /\ LET c == ClipAll(chunk_list, rb_lib, n_max)
       IN /\ rb_lib' = c.lib
          /\ n_max' = c.n_max
          /\ progress_bar' = update(args.verbosity > 1 /\ ~c.n_max.inf,
                                    n_read(chunk_list, c.lib))
    /\ pc' = "WriteChunk"
    /\ UNCHANGED <<args, in_exists, in_data, faults, first, eo, cb, rb_order, fs, fs0, run, result, ret, in_stream_type, out_spec,
                   buffer_size, streamer, out_files, i_out, chunk_list, log>>

\* a loop that ends after its first chunk
LoopEndsAlways(nmax) == TRUE

\* a loop that ends while n_max is not used up
LoopEndsReversed(nmax) == ~LeqZero(nmax)

\* a loop that goes on after n_max is used up
LoopEndsNever(nmax) == FALSE

\* line 175: the loop ends when n_max is used up
LoopEnds(nmax) == LeqZero(nmax)

\* a write that leaves out the buffers that were clipped to no rows
WriteChunkSkipsEmpty ==
    /\ pc = "WriteChunk"
    /\ LET filled == SelectSeq(chunk_list, LAMBDA id : rb_lib[id].loc > 0)
           w == write_to_lh5_and_clear(filled, fs, rb_lib)
       IN /\ fs' = w.fs
          /\ rb_lib' = w.lib
          /\ log' = log \o [i \in 1..Len(filled) |->
                              LET rb == rb_lib[filled[i]]
                              IN Ev("append", rb.out_stream, filled[i], rb.loc,
                                    SubSeq(rb.data, 1, rb.loc))]
    /\ pc' = IF LoopEnds(n_max) THEN "Summary" ELSE "ReadChunk"
    /\ UNCHANGED <<args, in_exists, in_data, faults, progress_bar, first, eo, cb, rb_order, fs0, run, result, ret, in_stream_type, out_spec,
                   buffer_size, n_max, streamer, out_files, i_out, chunk_list>>

\* lines 174-175: hand the chunk to the store
WriteChunk ==
    /\ pc = "WriteChunk"
    /\ LET w == write_to_lh5_and_clear(chunk_list, fs, rb_lib)
       IN /\ fs' = w.fs
          /\ rb_lib' = w.lib
    /\ log' = log \o [i \in 1..Len(chunk_list) |->
                        LET rb == rb_lib[chunk_list[i]]
                        IN Ev("append", rb.out_stream, chunk_list[i], rb.loc,
                              SubSeq(rb.data, 1, rb.loc))]
    /\ pc' = IF LoopEnds(n_max) THEN "Summary" ELSE "ReadChunk"
    /\ UNCHANGED <<args, in_exists, in_data, faults, progress_bar, first, eo, cb, rb_order, fs0, run, result, ret, in_stream_type, out_spec,
                   buffer_size, n_max, streamer, out_files, i_out, chunk_list>>

\* lines 177-194: the summary; the call returns
Summary ==
    /\ pc = "Summary"
    /\ log' = Append(log, Ev("summary", <<>>, "", 0, <<>>))
    /\ IF args.verbosity > 0 /\ \E i \in 1..Len(out_files) : out_files[i] \notin DOMAIN fs
       THEN Raise("stat_error")     \* os.stat of a file that is not there
       ELSE Return("ok")
    /\ UNCHANGED <<args, in_exists, in_data, faults, progress_bar, first, eo, cb, rb_order, fs, fs0, run, in_stream_type, out_spec,
                   buffer_size, n_max, streamer, rb_lib, out_files, i_out, chunk_list>>

\* build_raw is called again with the same arguments on the same input
Rerun ==
    /\ pc = "Done"
    /\ run = 1
    /\ UNCHANGED <<args, in_exists, in_data, faults, first, eo, cb, rb_order, fs>>
    /\ progress_bar' = NoBar
    /\ run' = 2
    /\ fs0' = fs
    /\ pc' = "CheckInput"
    /\ result' = "running"
    /\ ret' = NoRet
    /\ in_stream_type' = args.in_stream_type
    /\ out_spec' = args.out_spec
    /\ buffer_size' = args.buffer_size
    /\ n_max' = args.n_max
    /\ streamer' = [open |-> FALSE, pos |-> 1]
    /\ rb_lib' = NoLib
    /\ out_files' = <<>>
    /\ i_out' = 1
    /\ chunk_list' = <<>>
    /\ log' = <<>>

\* build_raw is called with another verbosity and nothing else changed: the
\* same arguments, input and directory as the first call had
RerunOtherVerbosity ==
    /\ pc = "Done"
    /\ run = 1
    /\ \E v \in Verbosities \ {args.verbosity} : args' = [args EXCEPT !.verbosity = v]
    /\ first' = [log |-> log, result |-> result, ret |-> ret, fs |-> fs]
    /\ UNCHANGED <<in_exists, in_data, faults, eo, cb, rb_order, fs0>>
    /\ fs' = fs0
    /\ progress_bar' = NoBar
    /\ run' = 3
    /\ pc' = "CheckInput"
    /\ result' = "running"
    /\ ret' = NoRet
    /\ in_stream_type' = args.in_stream_type
    /\ out_spec' = args.out_spec
    /\ buffer_size' = args.buffer_size
    /\ n_max' = args.n_max
    /\ streamer' = [open |-> FALSE, pos |-> 1]
    /\ rb_lib' = NoLib
    /\ out_files' = <<>>
    /\ i_out' = 1
    /\ chunk_list' = <<>>
    /\ log' = <<>>

Next ==
    \/ CheckInput
    \/ GuessType
    \/ ProcessOutSpec
    \/ CheckBufferSize
    \/ StartInfo
    \/ SelectStreamer
    \/ OpenStream
    \/ OpenStreamRaises
    \/ PrepareOutFile
    \/ HeaderWrite
    \/ ReadChunk
    \/ ReadChunkRaises
    \/ ClipChunk
    \/ WriteChunk
    \/ Summary
    \/ Rerun
    \/ RerunOtherVerbosity

Spec == Init /\ [][Next]_vars

----------------------------------------------------------------------------
(* What the history of the running call says *)

Events(op) == SelectSeq(log, LAMBDA e : e.op = op)
Happened(op) == \E i \in 1..Len(log) : log[i].op = op

\* the rows handed to the store so far, over all buffers and chunks
RECURSIVE RowsOf(_)
RowsOf(evs) == IF evs = <<>> THEN <<>> ELSE Head(evs).rows \o RowsOf(Tail(evs))
RowsHanded == RowsOf(Events("append"))

\* the destinations of the call
Destinations ==
    IF args.out_spec.kind = "none" THEN {DefaultOutSpec(args.in_stream)}
    ELSE {args.out_spec.files[i] : i \in 1..Len(args.out_spec.files)}

PreflightAborted == pc = "Done" /\ result \in {"multiple_matches", "file_exists"}

----------------------------------------------------------------------------
(* C1  When a run ends, the number of records handed to the store over all  *)
(* buffers and chunks is min(records in the input, n_max), for every n_max  *)
(* build_raw accepts.                                                        *)

C1_TotalIsMin ==
    (pc = "Done" /\ result = "ok")
        => Len(RowsHanded) = MinN(Len(in_data), args.n_max)

\* the same for the row limits that are not negative
C1_TotalIsMinNonNegative ==
    (pc = "Done" /\ result = "ok" /\ ~Gt(0, args.n_max))
        => Len(RowsHanded) = MinN(Len(in_data), args.n_max)

----------------------------------------------------------------------------
(* C2  When the loop over the destinations aborts the run, no destination  *)
(* has been deleted or modified.                                            *)

C2_AbortTouchesNothing ==
    PreflightAborted => (fs = fs0 /\ ~Happened("remove"))

----------------------------------------------------------------------------
(* C3  With overwrite=False and a destination that already exists, the run *)
(* aborts: nothing is deleted, no header is written and no buffer is       *)
(* handed to the store.                                                     *)

C3_ExistingDestinationAborts ==
    (~args.overwrite /\ \E d \in Destinations : d \in DOMAIN fs0)
        => /\ fs = fs0
           /\ ~Happened("remove") /\ ~Happened("header") /\ ~Happened("append")
           /\ pc = "Done" => result # "ok"

\* the same for the destinations whose name has no magic character
C3_ExistingPlainDestinationAborts ==
    (~args.overwrite /\ \E d \in Destinations : d \in DOMAIN fs0 /\ ~has_magic(d))
        => /\ fs = fs0
           /\ ~Happened("remove") /\ ~Happened("header") /\ ~Happened("append")
           /\ pc = "Done" => result # "ok"

----------------------------------------------------------------------------
(* C4  For every stream identity, the records appended to the store are a  *)
(* prefix of the identity's records in the input, in the order of the      *)
(* input; without a row limit a finished run has appended all of them.     *)

\* the records of identity id in the input, in order
InputOf(id) == SelectSeq([i \in 1..Len(in_data) |-> Rec(i)], LAMBDA r : r.id = id)

\* the rows appended for identity id so far
AppendedOf(id) == RowsOf(SelectSeq(log, LAMBDA e : e.op = "append" /\ e.id = id))

C4_OrderPreserved ==
    \A id \in IDs :
        /\ IsPrefix(AppendedOf(id), InputOf(id))
        /\ (pc = "Done" /\ result = "ok" /\ args.n_max.inf)
              => AppendedOf(id) = InputOf(id)

\* a finished run without row limit over interleaved identities, through
\* buffers smaller than either identity's share of the input
C4_Witness ==
    /\ pc = "Done" /\ result = "ok" /\ args.n_max.inf
    /\ Len(in_data) >= 4 /\ in_data[1] # in_data[2] /\ in_data[2] # in_data[3]
    /\ args.buffer_size = 1
    /\ \A id \in IDs : Len(AppendedOf(id)) >= 2

----------------------------------------------------------------------------
(* C5  With n_max = r below the number of records of the input, exactly r  *)
(* records reach the output, and read_chunk is never called once the       *)
(* remaining n_max is zero, for every r >= 0.                              *)

C5_NoReadAtZeroBudget ==
    (~args.n_max.inf /\ args.n_max.v >= 0 /\ args.n_max.v < Len(in_data))
        => /\ (pc = "Done" /\ result = "ok") => Len(RowsHanded) = args.n_max.v
           /\ \A i \in 1..Len(log) :
                log[i].op = "read_chunk" => log[i].b.v # 0

\* the same for r >= 1
C5_NoReadAtZeroBudgetPositive ==
    (~args.n_max.inf /\ args.n_max.v >= 1 /\ args.n_max.v < Len(in_data))
        => /\ (pc = "Done" /\ result = "ok") => Len(RowsHanded) = args.n_max.v
           /\ \A i \in 1..Len(log) :
                log[i].op = "read_chunk" => log[i].b.v # 0

----------------------------------------------------------------------------
(* C6  With buffers of size c >= 1, no row limit and n records of one      *)
(* identity, the run hands ceil(n/c) non-empty buffers to the store: each  *)
(* of c records, except that the last holds the remainder.                 *)

\* the sizes of the non-empty appends, in order
Flushes ==
    LET evs == SelectSeq(log, LAMBDA e : e.op = "append" /\ e.n # 0)
    IN [i \in 1..Len(evs) |-> evs[i].n]

\* c, c, ..., and the remainder
ExpectedFlushes(n, c) ==
    [i \in 1..((n + c - 1) \div c) |-> IF i * c <= n THEN c ELSE n - (i - 1) * c]

OneIdentity == \A i \in 1..Len(in_data) : in_data[i] = in_data[1]

C6_FlushSizes ==
    (pc = "Done" /\ result = "ok" /\ args.n_max.inf /\ OneIdentity /\ in_data # <<>>)
        => /\ rb_lib[in_data[1]].size >= 1
           /\ Flushes = ExpectedFlushes(Len(in_data), rb_lib[in_data[1]].size)

\* three records through buffers of size two: flushes of 2 and 1
C6_Witness ==
    /\ pc = "Done" /\ result = "ok" /\ args.n_max.inf /\ OneIdentity
    /\ Len(in_data) = 3 /\ rb_lib[in_data[1]].size = 2
    /\ Flushes = <<2, 1>>

----------------------------------------------------------------------------
(* C7  A second run on the same input with the same arguments and          *)
(* overwrite=True leaves every destination with the content the first run  *)
(* left: nothing of the first run survives next to the second run's output.*)

SameContent(d) ==
    /\ d \in DOMAIN fs <=> d \in DOMAIN fs0
    /\ d \in DOMAIN fs => fs[d] = fs0[d]

C7_RerunSameContent ==
    (args.overwrite /\ run = 2 /\ pc = "Done")
        => \A d \in Destinations : SameContent(d)

\* the same for the destinations whose name has no magic character
C7_RerunSameContentPlain ==
    (args.overwrite /\ run = 2 /\ pc = "Done" /\ \A d \in Destinations : ~has_magic(d))
        => \A d \in Destinations : SameContent(d)

----------------------------------------------------------------------------
(* C8  In every state of a run every buffer has 0 <= loc <= size; the      *)
(* clipping to n_max hands no buffer with a negative loc to the store.     *)

C8_FillCursorInRange ==
    \A id \in DOMAIN rb_lib :
        streamer.open => (0 <= rb_lib[id].loc /\ rb_lib[id].loc <= rb_lib[id].size)

\* the same for the row limits that are not negative
C8_FillCursorInRangeNonNegative ==
    ~Gt(0, args.n_max) =>
        \A id \in DOMAIN rb_lib :
            streamer.open => (0 <= rb_lib[id].loc /\ rb_lib[id].loc <= rb_lib[id].size)

----------------------------------------------------------------------------
(* C9  The header data returned by open_stream is written once: after      *)
(* every destination has been checked, and deleted where it existed, and   *)
(* before the first read_chunk and the first append.  The summary comes    *)
(* only after the loop over the chunks has ended.                          *)

HeaderAt == {i \in 1..Len(log) : log[i].op = "header"}

C9_PhaseOrder ==
    /\ Cardinality(HeaderAt) <= 1
    /\ (pc \in {"ReadChunk", "ClipChunk", "WriteChunk", "Summary"} \/ (pc = "Done" /\ result = "ok"))
          => Cardinality(HeaderAt) = 1
    /\ \A h \in HeaderAt :
          /\ \E j \in 1..(h - 1) : log[j].op = "open_stream"
          /\ \A k \in 1..Len(out_files) :
                \E j \in 1..(h - 1) : log[j].op = "glob" /\ log[j].file = out_files[k]
          /\ \A j \in 1..(h - 1) :
                (log[j].op = "glob" /\ log[j].n # 0) => log[j + 1].op = "remove"
    /\ \A i \in 1..Len(log) :
          /\ log[i].op \in {"open_stream", "glob", "remove"} => \A h \in HeaderAt : i < h
          /\ log[i].op \in {"read_chunk", "append"} => \E h \in HeaderAt : h < i
          /\ log[i].op = "summary" =>
                /\ i = Len(log)
                /\ \/ log[i - 1].op = "read_chunk" /\ log[i - 1].n = 0
                   \/ log[i - 1].op = "append" /\ LeqZero(n_max)

\* a finished run that deleted a destination, wrote to two and appended rows
C9_Witness ==
    /\ pc = "Done" /\ result = "ok" /\ args.n_max.inf
    /\ Len(out_files) = 2
    /\ Happened("remove") /\ Happened("append") /\ Happened("summary")

----------------------------------------------------------------------------
(* C10  Without in_stream_type the stream type is taken from the extension *)
(* of the input's name; when the name has no extension, or one that is not *)
(* known, the run ends with the unknown-file-type error before the stream  *)
(* is opened and before any destination is deleted or written.             *)

\* the last component of a path, and the part of it after its last "."
Basename(path) == SubSeq(path, rfind(path, "/") + 1, Len(path))
Extension(path) ==
    LET i == rfind(Basename(path), ".")
    IN IF i = 0 THEN <<>> ELSE SubSeq(Basename(path), i + 1, Len(Basename(path)))

C10_UnknownExtensionEndsEarly ==
    (in_exists /\ args.in_stream_type = "None") =>
        IF Extension(args.in_stream) = <<"fcio">>
        THEN pc \notin {"CheckInput", "GuessType"} => in_stream_type = "FlashCam"
        ELSE /\ pc \in {"CheckInput", "GuessType", "Done"}
             /\ pc = "Done" => result = "unknown_file_type"
             /\ ~streamer.open /\ ~Happened("open_stream")
             /\ fs = fs0

\* the run has ended on a name whose only "." is in a directory, with
\* overwrite allowed and its destination present
C10_Witness ==
    /\ pc = "Done" /\ result = "unknown_file_type"
    /\ args.in_stream = PathDirDot /\ args.in_stream_type = "None"
    /\ args.overwrite /\ \E d \in Destinations : d \in DOMAIN fs

----------------------------------------------------------------------------
(* C11  The outcome of build_raw tells success from failure: a run that    *)
(* reaches the summary gives back summary statistics, and every run that   *)
(* ends early (input not found, unknown format, bad buffer size, stream    *)
(* type not implemented, destination present with overwrite off) gives     *)
(* back or raises an error, so that no run that ended early has the        *)
(* outcome value of a run that went through.                               *)
C11_OutcomeTellsFailure ==
    pc = "Done" =>
        /\ result = "ok" => ret.value = "summary"
        /\ result # "ok" => ret.value \in {"error", "raised"}

----------------------------------------------------------------------------
(* C12  When the k-th call of read_chunk raises, the run ends in failure,  *)
(* and every destination holds the header and the complete batches of the  *)
(* chunks 1..k-1: no buffer of the failing chunk is appended, and no       *)
(* earlier chunk is appended in part.                                      *)

\* what destination d held when the header was written
Base(d) ==
    IF d \in DOMAIN fs0 /\ ~\E i \in DOMAIN log : log[i].op = "remove" /\ log[i].file = d
    THEN fs0[d] ELSE <<>>

\* the rows the call appended to destination d
AppendedTo(d) == RowsOf(SelectSeq(log, LAMBDA e : e.op = "append" /\ e.file = d))

ReadFailed == pc = "Done" /\ result = "stream_error" /\ Happened("read_chunk")

C12_FailedReadKeepsBatches ==
    ReadFailed =>
        /\ ret.value = "raised"
        /\ log[Len(log)].op = "read_chunk" /\ log[Len(log)].n = 0
        /\ faults.at > 0 => Len(Events("read_chunk")) = faults.at
        /\ RowsHanded = RowsOf(Events("read_chunk"))
        /\ \A i \in 1..Len(out_files) :
              fs[out_files[i]] = Base(out_files[i]) \o <<Hdr>> \o AppendedTo(out_files[i])

\* the third call failed after two chunks went to two destinations
C12_Witness ==
    /\ ReadFailed /\ faults.at = MaxFailAt
    /\ Len(out_files) = 2
    /\ \A i \in 1..2 : AppendedTo(out_files[i]) # <<>>

----------------------------------------------------------------------------
(* C13  Every run that ends early reports the destinations it had already  *)
(* deleted: in particular, when the loop over the destinations ends the    *)
(* run after an earlier destination was deleted, the error names that      *)
(* deleted destination.                                                    *)

\* the files the call has deleted
Removed == {log[i].file : i \in {j \in DOMAIN log : log[j].op = "remove"}}

C13_AbortNamesDeleted ==
    (pc = "Done" /\ result # "ok") => Removed \subseteq ret.named

----------------------------------------------------------------------------
(* C14  Without out_spec the one destination is the input path with only   *)
(* the extension of its last component replaced by the extension of the    *)
(* store, for every input path: also when the file name has no extension   *)
(* and a directory of the path has a "." in its name.                      *)

\* a path without the extension of its last component
PathStem(path) ==
    SubSeq(path, 1, Len(path) - (IF Extension(path) = <<>> THEN 0
                                 ELSE Len(Extension(path)) + 1))

C14_DefaultReplacesExtension ==
    (args.out_spec.kind = "none" /\ out_spec.kind = "str")
        => out_spec.files[1] = PathStem(args.in_stream) \o <<".", "lh5">>

----------------------------------------------------------------------------
(* C15  Without out_spec the output file is '{in_stream}.hdf5': the whole  *)
(* name of the input stream followed by ".hdf5", as the docstring of        *)
(* build_raw says.                                                          *)

C15_DefaultIsInStreamHdf5 ==
    (args.out_spec.kind = "none" /\ out_spec.kind = "str")
        => out_spec.files[1] = args.in_stream \o <<".", "hdf5">>

----------------------------------------------------------------------------
(* C16  Every in_stream_type the docstring of build_raw lists ('ORCA',     *)
(* 'FlashCams', 'LlamaDaq', 'Compass', 'MGDO') is known to the choice of   *)
(* the streamer: none of them ends in the "unknown input stream type"      *)
(* branch, and the FlashCam option as it is documented gets the FlashCam   *)
(* streamer, the one the extension "fcio" gives.                           *)

\* the options of the docstring
DocumentedTypes == {"ORCA", "FlashCams", "LlamaDaq", "Compass", "MGDO"}

C16_DocumentedTypesAreKnown ==
    args.in_stream_type \in DocumentedTypes =>
        /\ result # "unknown_stream_type"
        /\ args.in_stream_type = "FlashCams" => result # "not_implemented"

----------------------------------------------------------------------------
(* C17  The progress reporting only observes: two calls on the same input, *)
(* destinations and n_max that differ in verbosity alone make the same     *)
(* sequence of read_chunk calls, deletions and appends to the store, and   *)
(* end at the same point; the byte counter and the progress bar decide     *)
(* nothing of the control flow or of the output.                           *)

\* the read_chunk calls, deletions and appends of a history, in their order
Effects(h) == SelectSeq(h, LAMBDA e : e.op \in {"read_chunk", "remove", "append"})

C17_VerbosityOnlyObserves ==
    run = 3 =>
        /\ IsPrefix(Effects(log), Effects(first.log))
        /\ pc = "Done" =>
              /\ Effects(log) = Effects(first.log)
              /\ result = first.result /\ ret.value = first.ret.value
              /\ fs = first.fs

\* a silent call has ended as the first one, which had a progress bar over
\* the rows: after a deletion, with a chunk cut by n_max
C17_Witness ==
    /\ run = 3 /\ pc = "Done" /\ result = "ok"
    /\ args.verbosity = 0 /\ ~progress_bar.made
    /\ Happened("remove")
    /\ \E i \in DOMAIN log :
          log[i].op = "append" /\ log[i].n >= 1 /\ log[i].b = Num(0)
          /\ Len(RowsHanded) < Len(in_data)

----------------------------------------------------------------------------
(* C18  With overwrite=True, when the loop over the destinations is over   *)
(* and the header is about to be written, no destination that was there    *)
(* before the call is still there: every such destination of the list      *)
(* (each one once, also when several identities share it) has been deleted *)
(* exactly once.                                                           *)

\* the number of times the call deleted file d
TimesRemoved(d) == Cardinality({i \in DOMAIN log : log[i].op = "remove" /\ log[i].file = d})

\* the loop over out_files is over, the header is not written yet
PrepareDone == pc = "OutputPrepare" /\ i_out > Len(out_files)

C18_OverwriteDeletesExisting ==
    (args.overwrite /\ PrepareDone) =>
        \A i \in 1..Len(out_files) :
            out_files[i] \in DOMAIN fs0 =>
                out_files[i] \notin DOMAIN fs /\ TimesRemoved(out_files[i]) = 1

----------------------------------------------------------------------------
(* C19  In the loop over the chunks, the fill count of each buffer that is *)
(* handed to the store is min(rb.loc, n_max left), and n_max goes down by  *)
(* exactly that clipped count; so for an n_max that is not negative, the   *)
(* n_max left is never negative and never goes up.                         *)

\* n_max as it is left for buffer i of the chunk, given the clipped buffers
LeftFor(i, clipped) == Sub(n_max, n_read(SubSeq(chunk_list, 1, i - 1), clipped))

\* m is the smaller one of the count x and the row limit nm
IsMin(m, x, nm) ==
    /\ m <= x
    /\ ~nm.inf => m <= nm.v
    /\ m = x \/ (~nm.inf /\ m = nm.v)

\* row limit a is at most row limit b
Leq(a, b) == IF b.inf THEN TRUE ELSE ~a.inf /\ a.v <= b.v

C19_ClipIsMin ==
    [][/\ pc = "ClipChunk" =>
            /\ \A i \in 1..Len(chunk_list) :
                    IsMin(rb_lib'[chunk_list[i]].loc, rb_lib[chunk_list[i]].loc,
                          LeftFor(i, rb_lib'))
            /\ n_max' = Sub(n_max, n_read(chunk_list, rb_lib'))
       /\ (run' = run /\ ~Gt(0, args.n_max)) =>
            /\ ~Gt(0, n_max')
            /\ Leq(n_max', n_max)]_vars

\* of a chunk of two buffers the first is handed over whole, and the second
\* is cut to the rows that n_max leaves
C19_Witness ==
    /\ pc = "WriteChunk" /\ Len(chunk_list) = 2
    /\ ~Gt(0, args.n_max) /\ n_max = Num(0)
    /\ rb_lib[chunk_list[1]].loc = Len(rb_lib[chunk_list[1]].data)
    /\ rb_lib[chunk_list[2]].loc >= 1
    /\ rb_lib[chunk_list[2]].loc < Len(rb_lib[chunk_list[2]].data)

----------------------------------------------------------------------------
(* C20  An n_max that is used up ends the loop only after the chunk in     *)
(* hand is done: every buffer of every chunk list that is not empty is     *)
(* handed to the store exactly once, to be appended and cleared (a buffer  *)
(* behind the one that used n_max up with a fill count of zero), so after  *)
(* each write every buffer of the chunk has rb.loc = 0; and the empty      *)
(* chunk list at the end of the input is never handed to the store.        *)

\* the chunk of the read_chunk call at log[i] is still in hand
InHand(i) == i = Len(log) /\ pc \in {"ClipChunk", "WriteChunk"}

C20_WholeChunkIsWritten ==
    /\ \A i \in DOMAIN log :
          (log[i].op = "read_chunk" /\ ~InHand(i)) =>
              /\ i + log[i].n <= Len(log)
              /\ \A j \in (i + 1)..(i + log[i].n) : log[j].op = "append"
              /\ \A j, k \in (i + 1)..(i + log[i].n) : log[j].id = log[k].id => j = k
              /\ i + log[i].n < Len(log) => log[i + log[i].n + 1].op # "append"
    /\ \A j \in DOMAIN log :
          log[j].op = "append" =>
              \E i \in 1..(j - 1) : log[i].op = "read_chunk" /\ j <= i + log[i].n
    /\ pc \in {"ReadChunk", "Summary", "Done"} =>
          \A i \in 1..Len(chunk_list) :
              rb_lib[chunk_list[i]].loc = 0 /\ rb_lib[chunk_list[i]].data = <<>>

\* the first buffer of a chunk of two used n_max up, the second was handed
\* over with no rows, and the loop has ended
C20_Witness ==
    /\ pc = "Summary" /\ Len(chunk_list) = 2
    /\ log[Len(log) - 2].op = "read_chunk" /\ log[Len(log) - 2].n = 2
    /\ Len(log[Len(log) - 2].rows) > Len(log[Len(log) - 1].rows)
    /\ log[Len(log) - 1].op = "append" /\ log[Len(log) - 1].n >= 1
    /\ log[Len(log)].op = "append" /\ log[Len(log)].n = 0

----------------------------------------------------------------------------
(* C21  Whenever build_raw reaches open_stream, the buffer size it passes  *)
(* is at least 1: a buffer_size below 1 is turned down before the stream   *)
(* is opened, and the lowering of the buffer size to n_max never gives a   *)
(* size of zero or less, for every n_max build_raw accepts.                *)

C21_CapacityAtLeastOne ==
    /\ pc = "OpenStream" => buffer_size >= 1
    /\ \A i \in DOMAIN log : log[i].op = "open_stream" => log[i].n >= 1

----------------------------------------------------------------------------
(* pargen/energy_optimisation.py: get_peak_fwhm_with_dt_corr, its caller   *)
(* fom_fwhm_no_alpha_sweep, and the call of that one in                     *)
(* fom_interpolate_energy_res_with_single_peak_alpha_sweep                  *)

\* build_raw is not called
NoBuildRaw ==
    /\ in_exists = FALSE /\ in_data = <<>> /\ faults = NoFaults
    /\ rb_order = <<"A", "B">>
    /\ fs = OldFiles({}) /\ fs0 = fs
    /\ run = 1 /\ first = NoFirst
    /\ args = Args(PathFcio, "None", OutNone, 1, Inf, TRUE)
    /\ StartCall

build_raw_vars ==
    <<args, in_exists, in_data, faults, progress_bar, first, fs, fs0, run, pc, result,
      ret, in_stream_type, out_spec, buffer_size, n_max, streamer, rb_lib, rb_order,
      out_files, i_out, chunk_list, log>>

\* the peak functions a fit is made with
PeakFuncs == {"hpge_peak", "gauss_on_step"}

\* the functions a call starts in
EOEntries ==
    {"get_peak_fwhm_with_dt_corr", "fom_fwhm_no_alpha_sweep",
     "fom_interpolate_energy_res_with_single_peak_alpha_sweep"}

\* lines 604-606: the parameters of fom_fwhm_no_alpha_sweep
FomParameters == {"tb_in", "kwarg_dict", "ctc_param", "alpha", "idxs", "display"}

\* lines 701-709: the arguments of the call in the loop over the peaks
InterpolateArguments == {"tb_in", "kwarg_dict", "ctc_param", "alpha", "idxs", "frac_max", "display"}

\* line 424: the tuple of the except branch
NanTuple == <<"nan", "nan", "nan", "nan", "nan_pair", "nan", "nan", "None">>

\* lines 430-439: the tuple of the return statement
PeakTuple ==
    <<"fwhm", "fwhm_o_max", "fwhm_err", "fwhm_o_max_err", "chisqr", "n_sig",
      "n_sig_err", "energy_pars">>

\* lines 634-642 and 661-669: the keys of the dict
FomKeys ==
    {"fwhm", "fwhm_o_max", "fwhm_err", "fwhm_o_max_err", "chisquare", "n_sig", "n_sig_err"}

\* lines 644-650: the names the result of get_peak_fwhm_with_dt_corr is unpacked to
FomTargets ==
    <<"fwhm", "final_fwhm_o_max", "fwhm_err", "final_fwhm_o_max_err", "csqr", "n_sig",
      "n_sig_err">>

Running == [kind |-> "running", exc |-> "", tuple |-> <<>>, keys |-> {}]
Raised(e) == [kind |-> "raise", exc |-> e, tuple |-> <<>>, keys |-> {}]
ReturnedTuple(t) == [kind |-> "return", exc |-> "", tuple |-> t, keys |-> {}]
ReturnedDict(k) == [kind |-> "return", exc |-> "", tuple |-> <<>>, keys |-> k]

\* a call: the function it starts in, its arguments, and what the fit does
InitEO ==
    /\ NoBuildRaw
    /\ cb = NoCall
    /\ \E entry \in EOEntries, func \in PeakFuncs,
          fit_raises, htail_vanishes, allow_tail_drop, tail_dropped, kev,
          nan, ctc_param, idxs \in BOOLEAN :
        /\ tail_dropped => (allow_tail_drop /\ func = "hpge_peak" /\ ~fit_raises)
        /\ entry # "get_peak_fwhm_with_dt_corr" => (kev /\ ~allow_tail_drop)
        /\ entry = "get_peak_fwhm_with_dt_corr" => (~nan /\ ctc_param /\ ~idxs)
        /\ entry = "fom_interpolate_energy_res_with_single_peak_alpha_sweep"
                => (ctc_param /\ idxs)
        /\ eo = [entry |-> entry, func |-> func, fit_raises |-> fit_raises,
                 htail_vanishes |-> htail_vanishes, allow_tail_drop |-> allow_tail_drop,
                 tail_dropped |-> tail_dropped, kev |-> kev, nan |-> nan,
                 ctc_param |-> ctc_param, idxs |-> idxs,
                 arguments |-> IF entry = "fom_interpolate_energy_res_with_single_peak_alpha_sweep"
                               THEN InterpolateArguments
                               ELSE {"tb_in", "kwarg_dict"}
                                    \cup (IF ctc_param THEN {"ctc_param"} ELSE {})
                                    \cup (IF idxs THEN {"idxs"} ELSE {}),
                 pc |-> IF entry = "get_peak_fwhm_with_dt_corr" THEN "Fit" ELSE "FomCall",
                 locals |-> {}, peak |-> Running, outcome |-> Running]

\* get_peak_fwhm_with_dt_corr returns t: to the caller of the model, or to
\* fom_fwhm_no_alpha_sweep
PeakReturns(t) ==
    IF eo.entry = "get_peak_fwhm_with_dt_corr"
    THEN eo' = [eo EXCEPT !.pc = "Done", !.peak = ReturnedTuple(t),
                          !.outcome = ReturnedTuple(t)]
    ELSE eo' = [eo EXCEPT !.pc = "FomUnpack", !.peak = ReturnedTuple(t)]

\* lines 321-370: the staged fit; an exception of it is caught at line 423.
\* The fit gives back the function it used, which is another one when the
\* tail was dropped.
StagedFit ==
    /\ eo.pc = "Fit"
    /\ IF eo.fit_raises
       THEN PeakReturns(NanTuple)
       ELSE eo' = [eo EXCEPT !.pc = "Fwhm",
                             !.func = IF eo.tail_dropped THEN "gauss_on_step" ELSE @,
                             !.locals = @ \cup {"energy_pars", "energy_err", "cov",
                                                "chisqr", "func"}]
    /\ UNCHANGED <<build_raw_vars, cb>>

\* lines 372-385: the fwhm, the maximum and the bootstrapped maxima
FwhmAndMax ==
    /\ eo.pc = "Fwhm"
    /\ eo' = [eo EXCEPT !.pc = "Errors",
                        !.locals = @ \cup {"fwhm", "xs", "y", "max_val", "fwhm_o_max",
                                           "rng", "par_b", "y_max", "maxs"}]
    /\ UNCHANGED <<build_raw_vars, cb>>

\* lines 387-389: the condition of the branch with the bootstrapped fwhm
WithTail(func, htail_vanishes) == func = "hpge_peak" /\ ~htail_vanishes

\* lines 387-402: the errors; the read of a local that is not assigned is an
\* UnboundLocalError, caught at line 423
FwhmErrors ==
    /\ eo.pc = "Errors"
    /\ IF WithTail(eo.func, eo.htail_vanishes)
       THEN eo' = [eo EXCEPT !.pc = "Kev",
                             !.locals = @ \cup {"y_b", "fwhm_err", "fwhm_o_max_err"}]
       ELSE IF {"fwhm_o_max", "fwhm_err", "fwhm", "max_val"} \subseteq eo.locals \cup {"max_err"}
       THEN eo' = [eo EXCEPT !.pc = "Kev", !.locals = @ \cup {"max_err", "fwhm_o_max_err"}]
       ELSE PeakReturns(NanTuple)
    /\ UNCHANGED <<build_raw_vars, cb>>

\* lines 426-440: the conversion to keV and the return
PeakReturn ==
    /\ eo.pc = "Kev"
    /\ IF eo.kev /\ ~({"fwhm", "fwhm_err", "energy_pars"} \subseteq eo.locals)
       THEN eo' = [eo EXCEPT !.pc = "Done", !.outcome = Raised("UnboundLocalError")]
       ELSE PeakReturns(PeakTuple)
    /\ UNCHANGED <<build_raw_vars, cb>>

\* lines 604-631: the call of fom_fwhm_no_alpha_sweep and its preparation: a
\* keyword it has no parameter for is a TypeError, and so is dt[idxs] for dt = 0
FomCall ==
    /\ eo.pc = "FomCall"
    /\ IF ~(eo.arguments \subseteq FomParameters)
       THEN eo' = [eo EXCEPT !.pc = "Done", !.outcome = Raised("TypeError")]
       ELSE IF eo.idxs /\ ~eo.ctc_param
       THEN eo' = [eo EXCEPT !.pc = "Done", !.outcome = Raised("TypeError")]
       ELSE eo' = [eo EXCEPT !.pc = "FomNan"]
    /\ UNCHANGED <<build_raw_vars, cb>>

\* lines 633-660: energies with a nan give the dict of nans; else
\* get_peak_fwhm_with_dt_corr is called
FomNanCheck ==
    /\ eo.pc = "FomNan"
    /\ IF eo.nan
       THEN eo' = [eo EXCEPT !.pc = "Done", !.outcome = ReturnedDict(FomKeys)]
       ELSE eo' = [eo EXCEPT !.pc = "Fit"]
    /\ UNCHANGED <<build_raw_vars, cb>>

\* lines 643-669: the result is unpacked and the dict is returned; a tuple of
\* another length than the targets is a ValueError
FomUnpackAndReturn ==
    /\ eo.pc = "FomUnpack"
    /\ IF Len(eo.peak.tuple) # Len(FomTargets)
       THEN eo' = [eo EXCEPT !.pc = "Done", !.outcome = Raised("ValueError")]
       ELSE eo' = [eo EXCEPT !.pc = "Done", !.outcome = ReturnedDict(FomKeys)]
    /\ UNCHANGED <<build_raw_vars, cb>>

NextEO ==
    \/ StagedFit
    \/ FwhmAndMax
    \/ FwhmErrors
    \/ PeakReturn
    \/ FomCall
    \/ FomNanCheck
    \/ FomUnpackAndReturn

SpecEO == InitEO /\ [][NextEO]_vars

----------------------------------------------------------------------------
(* C22  get_peak_fwhm_with_dt_corr gives back the fwhm, fwhm/max and their *)
(* errors (a result of 8 values that is not the tuple of nans) whenever    *)
(* the staged fit itself goes through, for every peak function, not only   *)
(* for hpge_peak with a tail: on both branches of the computation of the   *)
(* errors every value that is read has been assigned before.               *)

C22_FitSuccessGivesFwhm ==
    (eo.peak.kind = "return" /\ ~eo.fit_raises) =>
        /\ eo.peak.tuple = PeakTuple
        /\ {"fwhm", "fwhm_o_max", "fwhm_err", "fwhm_o_max_err"} \subseteq eo.locals

----------------------------------------------------------------------------
(* C23  For energies without a nan, fom_fwhm_no_alpha_sweep gives back a   *)
(* dict with the keys fwhm, fwhm_o_max, fwhm_err, fwhm_o_max_err,          *)
(* chisquare, n_sig and n_sig_err, made of the result of                   *)
(* get_peak_fwhm_with_dt_corr: it unpacks as many values as that function  *)
(* gives back, on its success path and on its failure path, and the call   *)
(* in fom_interpolate_energy_res_with_single_peak_alpha_sweep passes only  *)
(* arguments the function has parameters for.                              *)

C23_NoSweepGivesDict ==
    (eo.entry # "get_peak_fwhm_with_dt_corr" /\ ~eo.nan) =>
        /\ eo.pc = "FomUnpack" => Len(eo.peak.tuple) = Len(FomTargets)
        /\ eo.pc = "Done" =>
              /\ eo.arguments \subseteq FomParameters
              /\ eo.outcome = ReturnedDict(FomKeys)

----------------------------------------------------------------------------
(* math/functions/crystal_ball.py: nb_crystal_ball_pdf, nb_crystal_ball_cdf, *)
(* their scaled variants and the methods of crystal_ball_gen                 *)

\* the functions a call starts in
CBEntries ==
    {"nb_crystal_ball_pdf", "nb_crystal_ball_cdf", "nb_crystal_ball_scaled_pdf",
     "nb_crystal_ball_scaled_cdf", "get_pdf", "get_cdf", "pdf_ext", "cdf_ext"}

\* lines 161, 187, 199-213: the calls of nb_crystal_ball_pdf and
\* nb_crystal_ball_cdf an entry makes for an x of n values, in their order;
\* pdf_ext takes the cdf at x_hi and at x_lo, then the pdf over x
CoreCalls(entry, n) ==
    IF entry \in {"nb_crystal_ball_pdf", "nb_crystal_ball_scaled_pdf", "get_pdf"}
    THEN <<[kind |-> "pdf", n |-> n]>>
    ELSE IF entry = "pdf_ext"
    THEN <<[kind |-> "cdf", n |-> 1], [kind |-> "cdf", n |-> 1], [kind |-> "pdf", n |-> n]>>
    ELSE <<[kind |-> "cdf", n |-> n]>>

\* a call: the function, beta, m and the length of x
InitCB ==
    /\ NoBuildRaw
    /\ eo = NoCall
    /\ \E entry \in CBEntries, beta \in (0 - 1)..MaxBeta, m \in 0..MaxM, n \in 0..MaxX :
        cb = [entry |-> entry, beta |-> beta, m |-> m, n |-> n,
              todo |-> CoreCalls(entry, n), pc |-> "Check", i |-> 0, computed |-> 0,
              outcome |-> "running"]

\* a check that lets beta = 0 through
cdf_rejects_negative(beta, m) == (beta < 0) \/ (m <= 1)

\* line 53
pdf_rejects(beta, m) == (beta <= 0) \/ (m <= 1)

\* line 112
cdf_rejects(beta, m) == (beta <= 0) \/ (m <= 1)

\* nb_crystal_ball_pdf, lines 53-54: the check of beta and m
PdfCheck ==
    /\ cb.pc = "Check"
    /\ Head(cb.todo).kind = "pdf"
    /\ IF pdf_rejects(cb.beta, cb.m)
       THEN cb' = [cb EXCEPT !.pc = "Done", !.outcome = "ValueError"]
       ELSE cb' = [cb EXCEPT !.pc = "Loop", !.i = 0]
    /\ UNCHANGED <<build_raw_vars, eo>>

\* nb_crystal_ball_pdf, lines 56-71: one pass of the loop, y[i] is computed
PdfElement ==
    /\ cb.pc = "Loop"
    /\ Head(cb.todo).kind = "pdf"
    /\ cb.i < Head(cb.todo).n
    /\ cb' = [cb EXCEPT !.i = @ + 1, !.computed = @ + 1]
    /\ UNCHANGED <<build_raw_vars, eo>>

\* nb_crystal_ball_pdf, line 73: y is given back to the entry, which makes its next call
\* or returns
PdfReturn ==
    /\ cb.pc = "Loop"
    /\ Head(cb.todo).kind = "pdf"
    /\ cb.i = Head(cb.todo).n
    /\ IF Tail(cb.todo) = <<>>
       THEN cb' = [cb EXCEPT !.todo = <<>>, !.pc = "Done", !.outcome = "return"]
       ELSE cb' = [cb EXCEPT !.todo = Tail(@), !.pc = "Check"]
    /\ UNCHANGED <<build_raw_vars, eo>>

\* nb_crystal_ball_cdf, lines 112-113: the check of beta and m
CdfCheck ==
    /\ cb.pc = "Check"
    /\ Head(cb.todo).kind = "cdf"
    /\ IF cdf_rejects(cb.beta, cb.m)
       THEN cb' = [cb EXCEPT !.pc = "Done", !.outcome = "ValueError"]
       ELSE cb' = [cb EXCEPT !.pc = "Loop", !.i = 0]
    /\ UNCHANGED <<build_raw_vars, eo>>

\* nb_crystal_ball_cdf, lines 114-134: one pass of the loop, y[i] is computed
CdfElement ==
    /\ cb.pc = "Loop"
    /\ Head(cb.todo).kind = "cdf"
    /\ cb.i < Head(cb.todo).n
    /\ cb' = [cb EXCEPT !.i = @ + 1, !.computed = @ + 1]
    /\ UNCHANGED <<build_raw_vars, eo>>

\* nb_crystal_ball_cdf, line 135: y is given back to the entry, which makes its next call
\* or returns
CdfReturn ==
    /\ cb.pc = "Loop"
    /\ Head(cb.todo).kind = "cdf"
    /\ cb.i = Head(cb.todo).n
    /\ IF Tail(cb.todo) = <<>>
       THEN cb' = [cb EXCEPT !.todo = <<>>, !.pc = "Done", !.outcome = "return"]
       ELSE cb' = [cb EXCEPT !.todo = Tail(@), !.pc = "Check"]
    /\ UNCHANGED <<build_raw_vars, eo>>

NextCB ==
    \/ PdfCheck
    \/ PdfElement
    \/ PdfReturn
    \/ CdfCheck
    \/ CdfElement
    \/ CdfReturn

SpecCB == InitCB /\ [][NextCB]_vars

----------------------------------------------------------------------------
(* C24  nb_crystal_ball_pdf and nb_crystal_ball_cdf raise ValueError       *)
(* exactly when beta <= 0 or m <= 1, before any element of the output is   *)
(* computed; the scaled variants and the methods get_pdf, get_cdf, pdf_ext *)
(* and cdf_ext raise for exactly the same values of beta and m, and give   *)
(* back a result for all others.                                           *)

\* beta and m are outside of the documented support beta > 0, m > 1
OutsideSupport == ~(cb.beta > 0 /\ cb.m > 1)

\* the elements all calls of an entry compute
RECURSIVE ElementsOf(_)
ElementsOf(calls) == IF calls = <<>> THEN 0 ELSE Head(calls).n + ElementsOf(Tail(calls))

C24_ValueErrorOutsideSupport ==
    /\ OutsideSupport => (cb.computed = 0 /\ cb.outcome # "return")
    /\ cb.outcome = "ValueError" => (OutsideSupport /\ cb.computed = 0)
    /\ cb.pc = "Done" =>
          IF OutsideSupport THEN cb.outcome = "ValueError"
          ELSE /\ cb.outcome = "return"
               /\ cb.computed = ElementsOf(CoreCalls(cb.entry, cb.n))

\* pdf_ext has raised for m = 1 with a beta inside the support
C24_Witness ==
    /\ cb.pc = "Done" /\ cb.entry = "pdf_ext" /\ cb.outcome = "ValueError"
    /\ cb.m = 1 /\ cb.beta > 0 /\ cb.n >= 1

====
